---- MODULE Spec2Model ----
(***************************************************************************)
(* Model of aeron-driver/src/main/c/media/aeron_udp_channel_transport.c:   *)
(* one transport handle, the OS descriptor table it opens sockets in, and  *)
(* the operations of the file (init, close, recvmmsg, sendmmsg, sendmsg,   *)
(* the two accessors, and the interceptor slot get and set it declares).   *)
(* Every operation is one action; what the operation did (its return       *)
(* value, the OS calls it issued in program order, the callbacks it made)  *)
(* is left in `last` until the caller takes the result (Return).           *)
(***************************************************************************)
EXTENDS Integers, Sequences, FiniteSets, TLC

VARIABLES
    platform,              \* the build: which #if defined(...) branches are compiled
    fd,                    \* transport->fd
    timestamp_flags,       \* transport->timestamp_flags
    interceptor_clientds,  \* transport->interceptor_clientds[]
    sockets,               \* the OS descriptor table: fd -> socket state
    last                   \* the call that has just returned, or NoCall

vars == <<platform, fd, timestamp_flags, interceptor_clientds, sockets, last>>

---------------------------------------------------------------------------
(* Bounds of the model *)

\* size of the OS descriptor table (socket() fails when it is full)
MaxSockets == 2
\* distinct non-NULL client references
MaxClientd == 1
\* largest vlen a batch call is made with
MaxVlen == 3
\* most datagrams pending on the socket when a receive batch starts
MaxPending == 2
\* longest payload, in bytes
MaxLen == 1

---------------------------------------------------------------------------
(* Program constants *)

NULL == 0
UNBOUND == -1
AERON_UDP_CHANNEL_TRANSPORT_MEDIA_RCV_TIMESTAMP_NONE == 0
AERON_UDP_CHANNEL_TRANSPORT_MEDIA_RCV_TIMESTAMP == 1
AERON_UDP_CHANNEL_TRANSPORT_MAX_INTERCEPTORS == 2
AERON_DRIVER_RECEIVER_NUM_RECV_BUFFERS == 2

\* sizes on the ABI of a build that has HAS_MEDIA_RCV_TIMESTAMPS (Linux, LP64)
sizeof_struct_cmsghdr == 16
sizeof_struct_timespec == 16
sizeof_size_t == 8

Fds == 0 .. (MaxSockets - 1)
Clientds == 1 .. MaxClientd
InterceptorIndexes == 0 .. (AERON_UDP_CHANNEL_TRANSPORT_MAX_INTERCEPTORS - 1)

Families == {"AF_INET", "AF_INET6"}
Ports == {40123, 40124}

\* struct sockaddr_storage *bind_addr: family, address class, port
BindAddrs == [family : Families, kind : {"unicast", "multicast"}, port : Ports]

\* the arguments of aeron_udp_channel_transport_init that the code reads
InitArgs ==
    [bind_addr : BindAddrs, ttl : {0, 1}, socket_rcvbuf : {0, 1},
     socket_sndbuf : {0, 1}, is_media_timestamping : BOOLEAN]

\* the builds: each flag is one preprocessor condition of the file. The two
\* vectorized calls come from the same libc, so a build has both or neither.
Platforms ==
    {p \in [HAS_MEDIA_RCV_TIMESTAMPS : BOOLEAN, HAVE_RECVMMSG : BOOLEAN,
            HAVE_SENDMMSG : BOOLEAN] : p.HAVE_RECVMMSG = p.HAVE_SENDMMSG}

---------------------------------------------------------------------------
(* The OS *)

\* what the OS keeps of a socket that later calls on it depend on
ClosedSocket ==
    [open |-> FALSE, bound |-> FALSE, nonblocking |-> FALSE,
     so_timestampns |-> FALSE, so_timestamping |-> FALSE]

NewSocket == [ClosedSocket EXCEPT !.open = TRUE]

Min(S) == CHOOSE x \in S : \A y \in S : x <= y

FreeFds(socks) == {f \in Fds : ~socks[f].open}

\* one OS call as the code issues it: the call, the descriptor it is made on,
\* the address it names (bind, joins), the port it names (bind; 0 for a call
\* that names none) and whether the OS let it succeed
Call(name, f, addr, ok) ==
    [call |-> name, fd |-> f, addr |-> addr, port |-> 0, ok |-> ok]

\* close(2) on descriptor f: releases the socket if f is open, EBADF otherwise
OsClose(socks, f) ==
    IF f \in Fds /\ socks[f].open THEN [socks EXCEPT ![f] = ClosedSocket] ELSE socks

\* the effect of one successful configuration call on the socket it is made on
OsApply(s, c) ==
    CASE c.call = "bind" -> [s EXCEPT !.bound = TRUE]
      [] c.call = "SO_TIMESTAMPNS" -> [s EXCEPT !.so_timestampns = TRUE]
      [] c.call = "SO_TIMESTAMPING" -> [s EXCEPT !.so_timestamping = TRUE]
      [] c.call = "O_NONBLOCK" -> [s EXCEPT !.nonblocking = TRUE]
      [] OTHER -> s

RECURSIVE OsApplyAll(_, _)
OsApplyAll(s, cs) ==
    IF cs = <<>> THEN s ELSE OsApplyAll(OsApply(s, Head(cs)), Tail(cs))

---------------------------------------------------------------------------
(* aeron_udp_channel_transport_init *)

aeron_is_addr_multicast(addr) == addr.kind = "multicast"

\* the two setsockopt calls of aeron_udp_channel_transport_setup_media_rcv_timestamps
SetupMediaRcvTimestampsCalls(p) ==
    IF p.HAS_MEDIA_RCV_TIMESTAMPS THEN <<"SO_TIMESTAMPNS", "SO_TIMESTAMPING">> ELSE <<>>

\* the unicast branch: bind to the requested address
UnicastCalls(a) == <<[call |-> "bind", addr |-> "requested", port |-> a.bind_addr.port]>>

\* MulticastCalls with the socket bound to the group address itself
MulticastCalls_BindsGroup(a) ==
    <<[call |-> "bind", addr |-> "requested", port |-> a.bind_addr.port],
      [call |-> IF a.bind_addr.family = "AF_INET6" THEN "IPV6_JOIN_GROUP" ELSE "IP_ADD_MEMBERSHIP",
       addr |-> "requested", port |-> 0]>>

\* the multicast branch: reuse options (on a build that defines SO_REUSEADDR and
\* SO_REUSEPORT), bind, join, interface, ttl/hops
MulticastCalls(a) ==
    <<[call |-> "SO_REUSEADDR", addr |-> "-", port |-> 0], [call |-> "SO_REUSEPORT", addr |-> "-", port |-> 0]>>
    \o (IF a.bind_addr.family = "AF_INET6"
        THEN <<[call |-> "bind", addr |-> "any", port |-> a.bind_addr.port],
               [call |-> "IPV6_JOIN_GROUP", addr |-> "requested", port |-> 0],
               [call |-> "IPV6_MULTICAST_IF", addr |-> "-", port |-> 0]>>
             \o (IF a.ttl > 0 THEN <<[call |-> "IPV6_MULTICAST_HOPS", addr |-> "-", port |-> 0]>> ELSE <<>>)
        ELSE <<[call |-> "bind", addr |-> "any", port |-> a.bind_addr.port],
               [call |-> "IP_ADD_MEMBERSHIP", addr |-> "requested", port |-> 0],
               [call |-> "IP_MULTICAST_IF", addr |-> "-", port |-> 0]>>
             \o (IF a.ttl > 0 THEN <<[call |-> "IP_MULTICAST_TTL", addr |-> "-", port |-> 0]>> ELSE <<>>))

\* the calls init makes on the new socket after socket(), in program order,
\* when none of them fails
ConfigCalls(p, a) ==
    (IF ~aeron_is_addr_multicast(a.bind_addr) THEN UnicastCalls(a) ELSE MulticastCalls(a))
    \o (IF a.socket_rcvbuf > 0 THEN <<[call |-> "SO_RCVBUF", addr |-> "-", port |-> 0]>> ELSE <<>>)
    \o (IF a.socket_sndbuf > 0 THEN <<[call |-> "SO_SNDBUF", addr |-> "-", port |-> 0]>> ELSE <<>>)
    \o (IF a.is_media_timestamping
        THEN [i \in 1 .. Len(SetupMediaRcvTimestampsCalls(p)) |->
                 [call |-> SetupMediaRcvTimestampsCalls(p)[i], addr |-> "-", port |-> 0]]
        ELSE <<>>)
    \o <<[call |-> "O_NONBLOCK", addr |-> "-", port |-> 0]>>

\* the names of the OS calls an init with arguments a can reach
InitCallNames(p, a) ==
    {"socket"} \cup {ConfigCalls(p, a)[i].call : i \in 1 .. Len(ConfigCalls(p, a))}

\* Attempted with a step whose failure is not followed by `goto error`
Attempted_NoGoto(cs, fail) == cs

\* `goto error`: every failing step jumps past the remaining steps. The steps
\* attempted when the OS fails the call named `fail`: all up to and
\* including the first one with that name
Attempted(cs, fail) ==
    LET bad == {i \in 1 .. Len(cs) : cs[i].call = fail}
    IN  IF bad = {} THEN cs ELSE SubSeq(cs, 1, Min(bad))

\* ErrorLabel without the aeron_close_socket call
ErrorLabel_NoClose(socks, f) ==
    [sockets |-> socks, calls |-> <<>>, fd |-> UNBOUND, ret |-> -1]

\* the error: label: close the socket if one was opened, mark the handle unbound
ErrorLabel(socks, f) ==
    [sockets |-> IF UNBOUND # f THEN OsClose(socks, f) ELSE socks,
     calls |-> IF UNBOUND # f THEN <<Call("close", f, "-", f \in Fds /\ socks[f].open)>> ELSE <<>>,
     fd |-> UNBOUND,
     ret |-> -1]

\* the flag set as soon as the first of the two options is enabled
TimestampFlagsAfter_FirstOption(done) ==
    IF \E i \in 1 .. Len(done) : done[i].call = "SO_TIMESTAMPNS" /\ done[i].ok
    THEN AERON_UDP_CHANNEL_TRANSPORT_MEDIA_RCV_TIMESTAMP
    ELSE AERON_UDP_CHANNEL_TRANSPORT_MEDIA_RCV_TIMESTAMP_NONE

\* timestamp_flags as init leaves it: reset at entry, set by the timestamp setup
\* once both of its options were enabled; no later statement touches it
TimestampFlagsAfter(done) ==
    IF \E i \in 1 .. Len(done) : done[i].call = "SO_TIMESTAMPING" /\ done[i].ok
    THEN AERON_UDP_CHANNEL_TRANSPORT_MEDIA_RCV_TIMESTAMP
    ELSE AERON_UDP_CHANNEL_TRANSPORT_MEDIA_RCV_TIMESTAMP_NONE

\* the whole of aeron_udp_channel_transport_init on OS table socks with arguments a,
\* when the OS fails the call named `fail` ("none": no call fails, except that
\* socket() always fails on a full descriptor table)
InitResult(p, socks, a, fail) ==
    LET socketOk == fail # "socket" /\ FreeFds(socks) # {}
    IN  IF ~socketOk
        THEN LET e == ErrorLabel(socks, UNBOUND)
             IN  [fd |-> e.fd, ret |-> e.ret, sockets |-> e.sockets,
                  timestamp_flags |-> AERON_UDP_CHANNEL_TRANSPORT_MEDIA_RCV_TIMESTAMP_NONE,
                  calls |-> <<Call("socket", UNBOUND, "-", FALSE)>> \o e.calls]
        ELSE LET f == Min(FreeFds(socks))
                 tried == Attempted(ConfigCalls(p, a), fail)
                 done == [i \in 1 .. Len(tried) |->
                             [Call(tried[i].call, f, tried[i].addr, tried[i].call # fail)
                                 EXCEPT !.port = tried[i].port]]
                 applied == SelectSeq(done, LAMBDA c : c.ok)
                 failed == Len(applied) < Len(done)
                 configured == [socks EXCEPT ![f] = OsApplyAll(NewSocket, applied)]
                 e == ErrorLabel(configured, f)
                 trace == <<Call("socket", f, "-", TRUE)>> \o done
             IN  IF failed
                 THEN [fd |-> e.fd, ret |-> e.ret, sockets |-> e.sockets,
                       timestamp_flags |-> TimestampFlagsAfter(done),
                       calls |-> trace \o e.calls]
                 ELSE [fd |-> f, ret |-> 0, sockets |-> configured,
                       timestamp_flags |-> TimestampFlagsAfter(done),
                       calls |-> trace]

\* the reset loop with its index started at 1
ResetInterceptorClientds_FromOne(slots) ==
    [i \in InterceptorIndexes |-> IF i = 0 THEN slots[i] ELSE NULL]

\* the loop at the entry of init: every interceptor slot is set to NULL
ResetInterceptorClientds(slots) == [i \in InterceptorIndexes |-> NULL]

NoCall == [op |-> "none"]

aeron_udp_channel_transport_init ==
    /\ last = NoCall
    /\ \E a \in InitArgs :
        \E fail \in InitCallNames(platform, a) \cup {"none"} :
            \E r \in {InitResult(platform, sockets, a, fail)} :
                /\ fd' = r.fd
                /\ timestamp_flags' = r.timestamp_flags
                /\ interceptor_clientds' = ResetInterceptorClientds(interceptor_clientds)
                /\ sockets' = r.sockets
                /\ last' = [op |-> "init", args |-> a, ret |-> r.ret, calls |-> r.calls]
    /\ UNCHANGED platform

---------------------------------------------------------------------------
(* aeron_udp_channel_transport_close *)

CloseResult(socks, f) ==
    [sockets |-> IF f # UNBOUND THEN OsClose(socks, f) ELSE socks,
     calls |-> IF f # UNBOUND THEN <<Call("close", f, "-", f \in Fds /\ socks[f].open)>> ELSE <<>>,
     fd |-> f,
     ret |-> 0]

aeron_udp_channel_transport_close ==
    /\ last = NoCall
    /\ LET r == CloseResult(sockets, fd)
       IN  /\ sockets' = r.sockets
           /\ fd' = r.fd
           /\ last' = [op |-> "close", ret |-> r.ret, calls |-> r.calls]
    /\ UNCHANGED <<platform, timestamp_flags, interceptor_clientds>>

---------------------------------------------------------------------------
(* interceptor slots *)

aeron_udp_channel_transport_set_interceptor_clientd ==
    /\ last = NoCall
    /\ \E i \in InterceptorIndexes, c \in Clientds \cup {NULL} :
        /\ interceptor_clientds' = [interceptor_clientds EXCEPT ![i] = c]
        /\ last' = [op |-> "set_interceptor_clientd", index |-> i, clientd |-> c]
    /\ UNCHANGED <<platform, fd, timestamp_flags, sockets>>

\* the slot is read, the handle is not written
aeron_udp_channel_transport_get_interceptor_clientd ==
    /\ last = NoCall
    /\ \E i \in InterceptorIndexes :
        last' = [op |-> "get_interceptor_clientd", index |-> i,
                 clientd |-> interceptor_clientds[i]]
    /\ UNCHANGED <<platform, fd, timestamp_flags, interceptor_clientds, sockets>>

---------------------------------------------------------------------------
(* The OS: datagram receive *)

\* the first control message the kernel has for a datagram
CmsgKinds == {"none", "SCM_TIMESTAMPNS", "other"}

\* a datagram pending on the socket: payload length and ancillary data
Datagrams == [len : 0 .. MaxLen, cmsg : CmsgKinds]

\* what a receive attempt reports when no datagram is pending
RecvErrnos == {"EAGAIN", "EINTR", "ECONNREFUSED"}

SeqsUpTo(S, n) == UNION {[1 .. k -> S] : k \in 0 .. n}

Min2(a, b) == IF a < b THEN a ELSE b

ValidFd(socks, f) == f \in Fds /\ socks[f].open

\* the first control message the kernel writes for datagram d received on socket
\* s into a slot: nothing without a control buffer on the slot, a timestamp
\* only if the socket has the option that produces it
KernelCmsg(s, attached, d) ==
    IF ~attached THEN "none"
    ELSE IF d.cmsg = "SCM_TIMESTAMPNS" /\ s.so_timestampns THEN "SCM_TIMESTAMPNS"
    ELSE IF d.cmsg = "other" /\ (s.so_timestampns \/ s.so_timestamping) THEN "other"
    ELSE "none"

\* recvmmsg(2) on a non-blocking socket, taken to fill one slot per pending
\* datagram, up to vlen, and to report how many; with none received it reports
\* the error
OsRecvmmsg(socks, f, vlen, attached, pending, errno) ==
    IF ~ValidFd(socks, f) THEN [result |-> -1, errno |-> "EBADF", slots |-> <<>>]
    ELSE IF pending = <<>> THEN [result |-> -1, errno |-> errno, slots |-> <<>>]
    ELSE [result |-> Min2(vlen, Len(pending)),
          errno |-> "-",
          slots |-> [k \in 1 .. Min2(vlen, Len(pending)) |->
                        [dgram |-> k, msg_len |-> pending[k].len,
                         cmsg |-> KernelCmsg(socks[f], attached[k], pending[k])]]]

\* aeron_recvmsg when datagram k of pending is the next one on the socket: a
\* datagram yields its length, an interrupted or would-block call yields 0, any
\* other failure -1
aeron_recvmsg(socks, f, pending, k, errno) ==
    IF ~ValidFd(socks, f) THEN -1
    ELSE IF k > Len(pending) THEN (IF errno \in {"EAGAIN", "EINTR"} THEN 0 ELSE -1)
    ELSE pending[k].len

---------------------------------------------------------------------------
(* aeron_udp_channel_transport_recvmmsg *)

\* CMSG_DATA of slot i's control buffer buf[i]: a non-NULL pointer into slot i
CmsgData(i) == i + 1

\* media_rcv_timestamp with no initializer
InitialMediaRcvTimestamp_Uninitialized == CmsgData(0)

\* struct timespec *media_rcv_timestamp = NULL
InitialMediaRcvTimestamp == NULL

\* the control-message macros of <sys/socket.h>
CMSG_ALIGN(len) == ((len + sizeof_size_t - 1) \div sizeof_size_t) * sizeof_size_t

CMSG_SPACE(len) == CMSG_ALIGN(len) + CMSG_ALIGN(sizeof_struct_cmsghdr)

CMSG_LEN(len) == CMSG_ALIGN(sizeof_struct_cmsghdr) + len

\* sizeof(buf[i]): the bytes of one row of char buf[...][CMSG_SPACE(sizeof(struct timespec))]
SizeofBuf == CMSG_SPACE(sizeof_struct_timespec)

\* msg_controllen as the attach loop registers it, one per slot it visits
ControlLens(flags, vlen) ==
    [k \in 1 .. (IF flags # 0 THEN Min2(vlen, AERON_DRIVER_RECEIVER_NUM_RECV_BUFFERS) ELSE 0) |->
        CMSG_LEN(SizeofBuf)]

\* slot i (from 0) gets a control buffer only when the handle has timestamp flags
ControlAttached(flags, vlen) ==
    [k \in 1 .. vlen |->
        flags # 0 /\ (k - 1) < vlen /\ (k - 1) < AERON_DRIVER_RECEIVER_NUM_RECV_BUFFERS]

\* media_rcv_timestamp after the check of slot i's first control message, m before it
ExtractTimestamp(cmsg, i, m) == IF cmsg = "SCM_TIMESTAMPNS" THEN CmsgData(i) ELSE m

\* the dispatch loop of the vectorized path from slot i on, with media_rcv_timestamp = m
RECURSIVE VectorizedDispatch(_, _, _, _)
VectorizedDispatch(i, length, slots, m) ==
    IF i >= length THEN <<>>
    ELSE LET ts == ExtractTimestamp(slots[i + 1].cmsg, i, m)
         IN  <<[slot |-> i, dgram |-> slots[i + 1].dgram, len |-> slots[i + 1].msg_len,
                timestamp |-> ts]>>
             \o VectorizedDispatch(i + 1, length, slots, ts)

\* the byte counter assigned, not added to
SumLen_Assigned(cbs) == IF cbs = <<>> THEN 0 ELSE cbs[Len(cbs)].len

\* *bytes_rcved += msgvec[i].msg_len, once per callback
RECURSIVE SumLen(_)
SumLen(cbs) == IF cbs = <<>> THEN 0 ELSE Head(cbs).len + SumLen(Tail(cbs))

\* the EINTR / EAGAIN filter with EAGAIN left out
TransientRecvErrnos_NoEagain == {"EINTR"}

\* EINTR == err || EAGAIN == err
TransientRecvErrnos == {"EINTR", "EAGAIN"}

\* the HAVE_RECVMMSG body
RecvVectorized(flags, socks, f, vlen, pending, errno) ==
    LET os == OsRecvmmsg(socks, f, vlen, ControlAttached(flags, vlen), pending, errno)
        cbs == VectorizedDispatch(0, os.result, os.slots, InitialMediaRcvTimestamp)
    IN  [controllen |-> ControlLens(flags, vlen)] @@
        (IF os.result < 0
         THEN [ret |-> IF os.errno \in TransientRecvErrnos THEN 0 ELSE -1,
               callbacks |-> <<>>, bytes_rcved |-> 0, consumed |-> 0, cmsgs |-> <<>>]
         ELSE IF os.result = 0
         THEN [ret |-> 0, callbacks |-> <<>>, bytes_rcved |-> 0, consumed |-> 0, cmsgs |-> <<>>]
         ELSE [ret |-> os.result, callbacks |-> cbs, bytes_rcved |-> SumLen(cbs),
               consumed |-> os.result,
               cmsgs |-> [k \in 1 .. os.result |-> os.slots[k].cmsg]])

\* the loop of the scalar path from slot i on; cbs are the callbacks made so far
RECURSIVE ScalarLoop(_, _, _, _, _, _, _)
\* the loop with a failed receive ending the batch like an empty one
ScalarLoop_ErrorAsBreak(i, vlen, socks, f, pending, errno, cbs) ==
    IF i >= vlen
    THEN [ret |-> Len(cbs), callbacks |-> cbs, bytes_rcved |-> SumLen(cbs), consumed |-> i]
    ELSE LET result == aeron_recvmsg(socks, f, pending, i + 1, errno)
         IN  IF result <= 0
             THEN [ret |-> Len(cbs), callbacks |-> cbs, bytes_rcved |-> SumLen(cbs),
                   consumed |-> Min2(i + 1, Len(pending))]
             ELSE ScalarLoop(i + 1, vlen, socks, f, pending, errno,
                             Append(cbs, [slot |-> i, dgram |-> i + 1, len |-> result,
                                          timestamp |-> NULL]))

ScalarLoop(i, vlen, socks, f, pending, errno, cbs) ==
    IF i >= vlen
    THEN [ret |-> Len(cbs), callbacks |-> cbs, bytes_rcved |-> SumLen(cbs), consumed |-> i]
    ELSE LET result == aeron_recvmsg(socks, f, pending, i + 1, errno)
         IN  IF result < 0
             THEN [ret |-> -1, callbacks |-> cbs, bytes_rcved |-> SumLen(cbs), consumed |-> i]
             ELSE IF 0 = result
             THEN [ret |-> Len(cbs), callbacks |-> cbs, bytes_rcved |-> SumLen(cbs),
                   consumed |-> Min2(i + 1, Len(pending))]
             ELSE ScalarLoop(i + 1, vlen, socks, f, pending, errno,
                             Append(cbs, [slot |-> i, dgram |-> i + 1, len |-> result,
                                          timestamp |-> NULL]))

\* the body without HAVE_RECVMMSG (no slot gets a control buffer)
RecvScalar(socks, f, vlen, pending, errno) ==
    [cmsgs |-> <<>>, controllen |-> <<>>] @@ ScalarLoop(0, vlen, socks, f, pending, errno, <<>>)

\* the datagrams that can be pending on descriptor f: ancillary data only on a
\* socket that has a timestamp option
PendingOn(socks, f) ==
    IF ValidFd(socks, f) /\ (socks[f].so_timestampns \/ socks[f].so_timestamping)
    THEN SeqsUpTo(Datagrams, MaxPending)
    ELSE SeqsUpTo([len : 0 .. MaxLen, cmsg : {"none"}], MaxPending)

aeron_udp_channel_transport_recvmmsg ==
    /\ last = NoCall
    /\ \E vlen \in 1 .. MaxVlen, errno \in RecvErrnos :
        \E pending \in PendingOn(sockets, fd) :
            LET r == IF platform.HAVE_RECVMMSG
                     THEN RecvVectorized(timestamp_flags, sockets, fd, vlen, pending, errno)
                     ELSE RecvScalar(sockets, fd, vlen, pending, errno)
            IN  last' = [op |-> "recvmmsg", vlen |-> vlen, pending |-> pending,
                         errno |-> errno, ret |-> r.ret, callbacks |-> r.callbacks,
                         bytes_rcved |-> r.bytes_rcved, consumed |-> r.consumed,
                         cmsgs |-> r.cmsgs, controllen |-> r.controllen]
    /\ UNCHANGED <<platform, fd, timestamp_flags, interceptor_clientds, sockets>>

---------------------------------------------------------------------------
(* The OS: datagram send *)

SendErrnos == {"EAGAIN", "EINTR", "ECONNREFUSED"}

\* what the OS does with a batch: it takes every message before number `at`
\* (from 1; 0: it takes them all) and refuses that one with errno
SendOutcomes(vlen) == [at : 0 .. vlen, errno : SendErrnos]

Refused(o, k) == o.at # 0 /\ k = o.at

\* sendmmsg(2): sends in order until a message is refused; reports how many
\* were sent, or the error when the first one was refused; msg_len of every
\* message sent is its byte count
OsSendmmsg(socks, f, lens, o) ==
    IF ~ValidFd(socks, f) THEN [result |-> -1, msg_len |-> <<>>, attempts |-> 0]
    ELSE IF o.at = 0 THEN [result |-> Len(lens), msg_len |-> lens, attempts |-> Len(lens)]
    ELSE IF o.at = 1 THEN [result |-> -1, msg_len |-> <<>>, attempts |-> 1]
    ELSE [result |-> o.at - 1, msg_len |-> SubSeq(lens, 1, o.at - 1), attempts |-> o.at]

\* aeron_sendmsg of message k: the bytes sent, 0 on an interrupted or
\* would-block call, -1 on any other failure
aeron_sendmsg(socks, f, lens, k, o) ==
    IF ~ValidFd(socks, f) THEN -1
    ELSE IF Refused(o, k) THEN (IF o.errno \in {"EAGAIN", "EINTR"} THEN 0 ELSE -1)
    ELSE lens[k]

---------------------------------------------------------------------------
(* aeron_udp_channel_transport_sendmmsg, aeron_udp_channel_transport_sendmsg *)

\* the HAVE_SENDMMSG body
SendVectorized(socks, f, lens, o) ==
    LET os == OsSendmmsg(socks, f, lens, o)
    IN  [ret |-> IF os.result < 0 THEN -1 ELSE os.result,
         msg_len |-> os.msg_len, attempts |-> os.attempts]

\* the loop of the scalar path from message i on (from 0); recorded holds the
\* msg_len written so far, one per message
RECURSIVE SendScalarLoop(_, _, _, _, _, _)
\* the loop with a failed send skipped and the batch carried on
SendScalarLoop_SkipsFailed(i, socks, f, lens, o, recorded) ==
    IF i >= Len(lens)
    THEN [ret |-> i, msg_len |-> recorded, attempts |-> i]
    ELSE LET sendmsg_result == aeron_sendmsg(socks, f, lens, i + 1, o)
         IN  IF sendmsg_result < 0
             THEN SendScalarLoop(i + 1, socks, f, lens, o, Append(recorded, 0))
             ELSE IF 0 = sendmsg_result
             THEN [ret |-> i, msg_len |-> Append(recorded, sendmsg_result), attempts |-> i + 1]
             ELSE SendScalarLoop(i + 1, socks, f, lens, o, Append(recorded, sendmsg_result))

SendScalarLoop(i, socks, f, lens, o, recorded) ==
    IF i >= Len(lens)
    THEN [ret |-> i, msg_len |-> recorded, attempts |-> i]
    ELSE LET sendmsg_result == aeron_sendmsg(socks, f, lens, i + 1, o)
         IN  IF sendmsg_result < 0
             THEN [ret |-> -1, msg_len |-> recorded, attempts |-> i + 1]
             ELSE IF 0 = sendmsg_result
             THEN [ret |-> i, msg_len |-> Append(recorded, sendmsg_result), attempts |-> i + 1]
             ELSE SendScalarLoop(i + 1, socks, f, lens, o, Append(recorded, sendmsg_result))

aeron_udp_channel_transport_sendmmsg ==
    /\ last = NoCall
    /\ \E vlen \in 1 .. MaxVlen :
        \E lens \in [1 .. vlen -> 0 .. MaxLen], o \in SendOutcomes(vlen) :
            LET r == IF platform.HAVE_SENDMMSG
                     THEN SendVectorized(sockets, fd, lens, o)
                     ELSE SendScalarLoop(0, sockets, fd, lens, o, <<>>)
            IN  last' = [op |-> "sendmmsg", vlen |-> vlen, lens |-> lens, os |-> o,
                         ret |-> r.ret, msg_len |-> r.msg_len, attempts |-> r.attempts]
    /\ UNCHANGED <<platform, fd, timestamp_flags, interceptor_clientds, sockets>>

aeron_udp_channel_transport_sendmsg ==
    /\ last = NoCall
    /\ \E len \in 0 .. MaxLen, o \in SendOutcomes(1) :
        LET sendmsg_result == aeron_sendmsg(sockets, fd, <<len>>, 1, o)
        IN  last' = [op |-> "sendmsg", len |-> len, os |-> o,
                     ret |-> IF sendmsg_result < 0 THEN -1 ELSE sendmsg_result,
                     attempts |-> 1]
    /\ UNCHANGED <<platform, fd, timestamp_flags, interceptor_clientds, sockets>>

---------------------------------------------------------------------------
(* The accessors *)

\* getsockopt(SO_RCVBUF) and getsockname on descriptor f: they fail on a
\* descriptor that names no open socket, and when the OS refuses (os_ok false)
OsQuery(socks, f, os_ok) == IF ValidFd(socks, f) /\ os_ok THEN 0 ELSE -1

\* what aeron_format_source_identity returns for the address of the socket:
\* negative when the buffer cannot hold the text, the length of the text otherwise
FormatResults == {-1, 1}

\* get_so_rcvbuf marking the handle unbound when getsockopt fails
aeron_udp_channel_transport_get_so_rcvbuf_MarksUnbound ==
    /\ last = NoCall
    /\ \E os_ok \in BOOLEAN :
        LET result == OsQuery(sockets, fd, os_ok)
        IN  /\ last' = [op |-> "get_so_rcvbuf", ret |-> IF result < 0 THEN -1 ELSE 0]
            /\ fd' = IF result < 0 THEN UNBOUND ELSE fd
    /\ UNCHANGED <<platform, timestamp_flags, interceptor_clientds, sockets>>

aeron_udp_channel_transport_get_so_rcvbuf ==
    /\ last = NoCall
    /\ \E os_ok \in BOOLEAN :
        LET result == OsQuery(sockets, fd, os_ok)
        IN  last' = [op |-> "get_so_rcvbuf", ret |-> IF result < 0 THEN -1 ELSE 0]
    /\ UNCHANGED <<platform, fd, timestamp_flags, interceptor_clientds, sockets>>

aeron_udp_channel_transport_bind_addr_and_port ==
    /\ last = NoCall
    /\ \E os_ok \in BOOLEAN, formatted \in FormatResults :
        LET result == OsQuery(sockets, fd, os_ok)
        IN  last' = [op |-> "bind_addr_and_port",
                     ret |-> IF result < 0 THEN -1 ELSE formatted]
    /\ UNCHANGED <<platform, fd, timestamp_flags, interceptor_clientds, sockets>>

---------------------------------------------------------------------------
(* the caller takes the result of the call that returned *)

Return ==
    /\ last # NoCall
    /\ last' = NoCall
    /\ UNCHANGED <<platform, fd, timestamp_flags, interceptor_clientds, sockets>>

---------------------------------------------------------------------------

Init ==
    /\ platform \in Platforms
    /\ fd = UNBOUND
    /\ timestamp_flags = AERON_UDP_CHANNEL_TRANSPORT_MEDIA_RCV_TIMESTAMP_NONE
    /\ interceptor_clientds = [i \in InterceptorIndexes |-> NULL]
    /\ sockets = [f \in Fds |-> ClosedSocket]
    /\ last = NoCall

Next ==
    \/ aeron_udp_channel_transport_init
    \/ aeron_udp_channel_transport_close
    \/ aeron_udp_channel_transport_set_interceptor_clientd
    \/ aeron_udp_channel_transport_get_interceptor_clientd
    \/ Return

Spec == Init /\ [][Next]_vars

\* the handle under the datagram operations and the accessors: initialised and
\* closed as in Spec, polled, sent on and read in any state; no interceptor is
\* registered, so its slots are as init resets them
NextIO ==
    \/ aeron_udp_channel_transport_init
    \/ aeron_udp_channel_transport_close
    \/ aeron_udp_channel_transport_recvmmsg
    \/ aeron_udp_channel_transport_sendmmsg
    \/ aeron_udp_channel_transport_sendmsg
    \/ aeron_udp_channel_transport_get_so_rcvbuf
    \/ aeron_udp_channel_transport_bind_addr_and_port
    \/ aeron_udp_channel_transport_get_interceptor_clientd
    \/ Return

SpecIO == Init /\ [][NextIO]_vars

---------------------------------------------------------------------------
(* Vocabulary of the properties *)

OpenFds(socks) == {f \in Fds : socks[f].open}

\* the position of the first call named n in the trace cs, 0 when there is none
Pos(cs, n) ==
    LET at == {i \in 1 .. Len(cs) : cs[i].call = n}
    IN  IF at = {} THEN 0 ELSE Min(at)

Has(cs, n) == Pos(cs, n) > 0

\* a configuration step of the returned init was refused by the OS
InitStepFailed ==
    /\ last.op = "init"
    /\ \E i \in 1 .. Len(last.calls) : last.calls[i].call # "close" /\ ~last.calls[i].ok

\* the handle as a freshly reset, unbound handle has it
FreshHandle ==
    /\ fd = UNBOUND
    /\ timestamp_flags = AERON_UDP_CHANNEL_TRANSPORT_MEDIA_RCV_TIMESTAMP_NONE
    /\ \A i \in InterceptorIndexes : interceptor_clientds[i] = NULL

\* the handle owns an open OS socket
OwnsOpenSocket == fd \in Fds /\ sockets[fd].open

---------------------------------------------------------------------------
(* C1: whichever step of init the OS refuses (socket, bind, reuse options,  *)
(* group join, multicast interface, ttl/hops, buffer sizes, timestamp      *)
(* options, non-blocking mode), init returns -1, the handle's descriptor   *)
(* is the unbound sentinel, and the socket that attempt opened, if any,    *)
(* was released by that attempt and is no longer open.                     *)
C1_FailedInitClosesItsSocket ==
    InitStepFailed =>
        /\ last.ret = -1
        /\ fd = UNBOUND
        /\ LET c == last.calls
           IN  c[1].call = "socket" /\ c[1].ok =>
                   /\ ~sockets[c[1].fd].open
                   /\ c[Len(c)] = Call("close", c[1].fd, "-", TRUE)
                   /\ \A i \in 1 .. Len(c) : c[i].fd = c[1].fd

\* an init whose last step (non-blocking mode) was refused after a socket was
\* opened, bound and configured
C1_Witness ==
    /\ InitStepFailed
    /\ Len(last.calls) > 3
    /\ last.calls[1].ok
    /\ \E i \in 1 .. Len(last.calls) : last.calls[i] = Call("O_NONBLOCK", last.calls[1].fd, "-", FALSE)

(* C2: whenever init returns an error the handle is as a freshly reset     *)
(* unbound handle: descriptor unbound, timestamp capability flag none,     *)
(* every interceptor slot empty.                                           *)
C2_FailedInitLeavesFreshHandle ==
    (last.op = "init" /\ last.ret # 0) => FreshHandle

(* C3: init returns 0 only if every applicable step succeeded, in order:   *)
(* socket, [multicast: reuse options,] bind, [multicast: join, interface,  *)
(* ttl/hops when ttl > 0,] requested buffer sizes, timestamp options when  *)
(* requested, and non-blocking mode last; after a refused step no further  *)
(* step is attempted; on success the descriptor is not the sentinel and    *)
(* names an open, bound, non-blocking socket.                              *)
StepOrder ==
    <<"socket", "SO_REUSEADDR", "SO_REUSEPORT", "bind",
      "IP_ADD_MEMBERSHIP", "IPV6_JOIN_GROUP", "IP_MULTICAST_IF", "IPV6_MULTICAST_IF",
      "IP_MULTICAST_TTL", "IPV6_MULTICAST_HOPS", "SO_RCVBUF", "SO_SNDBUF",
      "SO_TIMESTAMPNS", "SO_TIMESTAMPING", "O_NONBLOCK", "close">>

Rank(n) == Min({i \in 1 .. Len(StepOrder) : StepOrder[i] = n})

C3_InitSucceedsOnlyAfterEveryStep ==
    last.op = "init" =>
        LET c == last.calls
            a == last.args
            v6 == a.bind_addr.family = "AF_INET6"
            mc == a.bind_addr.kind = "multicast"
        IN  /\ \A i, j \in 1 .. Len(c) : i < j => Rank(c[i].call) < Rank(c[j].call)
            /\ \A i, j \in 1 .. Len(c) : (i < j /\ ~c[i].ok) => c[j].call = "close"
            /\ last.ret = 0 =>
                /\ \A i \in 1 .. Len(c) : c[i].ok /\ c[i].call # "close"
                /\ c[1].call = "socket"
                /\ Has(c, "bind")
                /\ mc => Has(c, IF v6 THEN "IPV6_JOIN_GROUP" ELSE "IP_ADD_MEMBERSHIP")
                /\ mc => Has(c, IF v6 THEN "IPV6_MULTICAST_IF" ELSE "IP_MULTICAST_IF")
                /\ (mc /\ a.ttl > 0) => Has(c, IF v6 THEN "IPV6_MULTICAST_HOPS" ELSE "IP_MULTICAST_TTL")
                /\ a.socket_rcvbuf > 0 => Has(c, "SO_RCVBUF")
                /\ a.socket_sndbuf > 0 => Has(c, "SO_SNDBUF")
                /\ (a.is_media_timestamping /\ platform.HAS_MEDIA_RCV_TIMESTAMPS) =>
                       Has(c, "SO_TIMESTAMPNS") /\ Has(c, "SO_TIMESTAMPING")
                /\ c[Len(c)].call = "O_NONBLOCK"
                /\ fd # UNBOUND
                /\ fd = c[1].fd
                /\ sockets[fd].open /\ sockets[fd].bound /\ sockets[fd].nonblocking

\* a successful multicast init with every optional step requested
C3_Witness ==
    /\ last.op = "init" /\ last.ret = 0
    /\ last.args.bind_addr.kind = "multicast"
    /\ last.args.ttl > 0 /\ last.args.socket_rcvbuf > 0 /\ last.args.socket_sndbuf > 0
    /\ last.args.is_media_timestamping
    /\ Has(last.calls, "SO_TIMESTAMPING")
    /\ OwnsOpenSocket

(* C4: close on a handle that owns no open socket (never opened, or        *)
(* already closed) returns 0 and issues no OS socket release.              *)
C4_CloseIsIdempotent ==
    [][(last'.op = "close" /\ ~OwnsOpenSocket) => (last'.ret = 0 /\ last'.calls = <<>>)]_vars

(* C5: the descriptor differs from the unbound sentinel exactly when the   *)
(* handle owns an open OS socket.                                          *)
C5_DescriptorMatchesLifecycle ==
    (fd # UNBOUND) <=> OwnsOpenSocket

---------------------------------------------------------------------------
(* Vocabulary of the receive and send properties *)

RECURSIVE SumPending(_)
SumPending(ds) == IF ds = <<>> THEN 0 ELSE Head(ds).len + SumPending(Tail(ds))

\* a receive batch returned on a handle whose descriptor names an open socket
RecvOnSocket == last.op = "recvmmsg" /\ ValidFd(sockets, fd)

\* the callback made for slot i (from 0) is for datagram i + 1 of the pending
\* ones, with its length
DeliveredInOrder(n) ==
    /\ Len(last.callbacks) = n
    /\ \A i \in 1 .. n :
        /\ last.callbacks[i].slot = i - 1
        /\ last.callbacks[i].dgram = i
        /\ last.callbacks[i].len = last.pending[i].len

\* the pending datagrams before the first zero-length one
BeforeZeroLength(ds) ==
    LET z == {i \in 1 .. Len(ds) : ds[i].len = 0}
    IN  IF z = {} THEN Len(ds) ELSE Min(z) - 1

(* C6: a receive batch with nothing pending, or whose receive call is      *)
(* interrupted or would block, returns 0, makes no callback and adds       *)
(* nothing to the byte counter, on the vectorized and on the scalar path.  *)
C6_NothingPendingReturnsZero ==
    (RecvOnSocket /\ last.pending = <<>> /\ last.errno \in {"EAGAIN", "EINTR"}) =>
        /\ last.ret = 0
        /\ last.callbacks = <<>>
        /\ last.bytes_rcved = 0

\* a vectorized receive on a bound socket that would block
C6_Witness ==
    /\ RecvOnSocket /\ platform.HAVE_RECVMMSG
    /\ last.pending = <<>> /\ last.errno = "EAGAIN"
    /\ last.ret = 0

(* C7 as stated: with K < vlen datagrams pending, of any lengths, the      *)
(* batch returns K, makes K callbacks in slot order, one per datagram with *)
(* its length, and adds the sum of the K lengths to the byte counter, on   *)
(* both paths.                                                             *)
C7_ReceivesAllPending ==
    (RecvOnSocket /\ Len(last.pending) < last.vlen /\ last.errno \in {"EAGAIN", "EINTR"}) =>
        /\ last.ret = Len(last.pending)
        /\ DeliveredInOrder(Len(last.pending))
        /\ last.bytes_rcved = SumPending(last.pending)

(* C7 as amended: so on the vectorized path for any lengths, and on the    *)
(* scalar path when no pending datagram is zero-length; on the scalar path *)
(* a zero-length datagram ends the batch: the call returns the number N of *)
(* datagrams before the first zero-length one, makes callbacks for exactly *)
(* those and adds their lengths, and the zero-length datagram is consumed  *)
(* without a callback.                                                     *)
C7_ReceivesAllPendingAmended ==
    (RecvOnSocket /\ Len(last.pending) < last.vlen /\ last.errno \in {"EAGAIN", "EINTR"}) =>
        LET n == IF platform.HAVE_RECVMMSG
                 THEN Len(last.pending)
                 ELSE BeforeZeroLength(last.pending)
        IN  /\ last.ret = n
            /\ DeliveredInOrder(n)
            /\ last.bytes_rcved = SumPending(SubSeq(last.pending, 1, n))
            /\ last.consumed = IF platform.HAVE_RECVMMSG THEN n
                                ELSE Min2(n + 1, Len(last.pending))

\* two datagrams, the first zero-length, received by a vectorized batch of three slots
C7_Witness ==
    /\ RecvOnSocket /\ platform.HAVE_RECVMMSG
    /\ Len(last.pending) = 2 /\ last.vlen = 3
    /\ last.pending[1].len = 0 /\ last.pending[2].len > 0
    /\ last.ret = 2 /\ Len(last.callbacks) = 2

(* C8: in a vectorized batch the timestamp passed for datagram i is        *)
(* present exactly when slot i's own first control message is a            *)
(* nanosecond receive timestamp, and then it is slot i's.                  *)
C8_TimestampIsTheDatagramsOwn ==
    (last.op = "recvmmsg" /\ platform.HAVE_RECVMMSG) =>
        \A i \in 1 .. Len(last.callbacks) :
            IF last.cmsgs[i] = "SCM_TIMESTAMPNS"
            THEN last.callbacks[i].timestamp = CmsgData(i - 1)
            ELSE last.callbacks[i].timestamp = NULL

(* C9: a callback gets a present timestamp only if the handle has          *)
(* timestamping enabled and the vectorized path is in use.                 *)
C9_TimestampOnlyWhenEnabled ==
    last.op = "recvmmsg" =>
        \A i \in 1 .. Len(last.callbacks) :
            last.callbacks[i].timestamp # NULL =>
                /\ timestamp_flags # AERON_UDP_CHANNEL_TRANSPORT_MEDIA_RCV_TIMESTAMP_NONE
                /\ platform.HAVE_RECVMMSG

\* datagrams delivered by a vectorized batch on a build with timestamp support,
\* on a handle initialised without timestamping
C9_Witness ==
    /\ RecvOnSocket /\ platform.HAVE_RECVMMSG /\ platform.HAS_MEDIA_RCV_TIMESTAMPS
    /\ timestamp_flags = AERON_UDP_CHANNEL_TRANSPORT_MEDIA_RCV_TIMESTAMP_NONE
    /\ Len(last.callbacks) = 2
    /\ \A i \in 1 .. 2 : last.callbacks[i].timestamp = NULL

\* message k of the returned send batch transferred no byte without failing
\* hard: its payload is empty, or the destination did not take it
ZeroByteSend(k) ==
    \/ Refused(last.os, k) /\ last.os.errno \in {"EAGAIN", "EINTR"}
    \/ ~Refused(last.os, k) /\ last.lens[k] = 0

\* the messages of the returned send batch before the first zero-byte send
BeforeZeroByteSend ==
    LET z == {k \in 1 .. last.vlen : ZeroByteSend(k)}
    IN  IF z = {} THEN last.vlen ELSE Min(z) - 1

\* no message of the returned send batch failed hard
NoHardSendError == last.os.at = 0 \/ last.os.errno \in {"EAGAIN", "EINTR"}

(* C10: a send batch of K messages (non-empty payloads) on a bound socket, *)
(* none failing hard, returns K; if message j (from 0) is the first the    *)
(* destination does not take (a zero-byte send), it returns j and not an   *)
(* error, nothing after j is attempted, and every slot before j records    *)
(* the bytes sent, slot j zero bytes if it records anything.               *)
C10_SendBatchCount ==
    (/\ last.op = "sendmmsg" /\ ValidFd(sockets, fd) /\ NoHardSendError
     /\ \A k \in 1 .. last.vlen : last.lens[k] > 0) =>
        LET j == BeforeZeroByteSend
        IN  /\ last.ret = j
            /\ last.attempts = Min2(j + 1, last.vlen)
            /\ SubSeq(last.msg_len, 1, j) = SubSeq(last.lens, 1, j)
            /\ Len(last.msg_len) \in {j, Min2(j + 1, last.vlen)}
            /\ Len(last.msg_len) > j => last.msg_len[j + 1] = 0

(* C11: a transient condition on send is zero progress, not an error: when *)
(* the OS reports would-block or interrupted-call for the first message of *)
(* a batch or for a single send, the call returns 0; when it reports it    *)
(* for a later message of a batch the call does not return an error; on    *)
(* the vectorized path as on the scalar path.                              *)
C11_TransientSendIsZeroProgress ==
    (/\ last.op \in {"sendmmsg", "sendmsg"} /\ ValidFd(sockets, fd)
     /\ last.os.at # 0 /\ last.os.errno \in {"EAGAIN", "EINTR"}) =>
        /\ last.ret >= 0
        /\ last.os.at = 1 => last.ret = 0

\* the positions in the trace cs of the calls whose name is in ns
Calls(cs, ns) == {i \in 1 .. Len(cs) : cs[i].call \in ns}

(* C12: for a multicast bind address (IPv4 or IPv6) init binds the socket  *)
(* to the wildcard address on the port of the requested group address,     *)
(* never to the group address, and after the bind joins the requested      *)
(* group with the join of the address family; for a unicast bind address   *)
(* it binds to the requested address and port and joins no group.          *)
C12_BindAddressByClass ==
    last.op = "init" =>
        LET c == last.calls
            a == last.args
            mc == a.bind_addr.kind = "multicast"
            binds == Calls(c, {"bind"})
            joins == Calls(c, {"IP_ADD_MEMBERSHIP", "IPV6_JOIN_GROUP"})
            join == IF a.bind_addr.family = "AF_INET6"
                    THEN "IPV6_JOIN_GROUP" ELSE "IP_ADD_MEMBERSHIP"
        IN  /\ Cardinality(binds) <= 1
            /\ \A i \in binds :
                /\ c[i].port = a.bind_addr.port
                /\ c[i].addr = IF mc THEN "any" ELSE "requested"
            /\ \A i \in joins :
                /\ mc
                /\ c[i].call = join /\ c[i].addr = "requested"
                /\ \E b \in binds : b < i /\ c[b].ok
            /\ last.ret = 0 =>
                /\ Cardinality(binds) = 1
                /\ Cardinality(joins) = IF mc THEN 1 ELSE 0

\* a successful init on an IPv6 group address, and the bind and join it made
C12_Witness ==
    /\ last.op = "init" /\ last.ret = 0
    /\ last.args.bind_addr = [family |-> "AF_INET6", kind |-> "multicast", port |-> 40124]
    /\ \E i, j \in 1 .. Len(last.calls) :
        /\ i < j
        /\ last.calls[i].call = "bind" /\ last.calls[i].addr = "any"
        /\ last.calls[i].port = 40124
        /\ last.calls[j].call = "IPV6_JOIN_GROUP" /\ last.calls[j].addr = "requested"

\* the step is the return of the operation named op
Returns(op) == last.op = "none" /\ last'.op = op

(* C13: a set of slot i stores the reference in slot i and leaves every    *)
(* other slot as it was; a get of slot i returns what slot i holds and     *)
(* changes no slot; init leaves every slot empty; and no other operation   *)
(* writes a slot: so a get of slot i returns the reference of the last set *)
(* of slot i since init, and the empty value when there was none.          *)
C13_InterceptorSlotsSetThenGet ==
    [][/\ Returns("set_interceptor_clientd") =>
            /\ interceptor_clientds'[last'.index] = last'.clientd
            /\ \A j \in InterceptorIndexes \ {last'.index} :
                   interceptor_clientds'[j] = interceptor_clientds[j]
       /\ Returns("get_interceptor_clientd") =>
            /\ last'.clientd = interceptor_clientds[last'.index]
            /\ interceptor_clientds' = interceptor_clientds
       /\ Returns("init") =>
            \A i \in InterceptorIndexes : interceptor_clientds'[i] = NULL
       /\ ~(Returns("set_interceptor_clientd") \/ Returns("init")) =>
            interceptor_clientds' = interceptor_clientds]_vars

\* a get of slot 1 returns the reference stored there while slot 0 is empty
C13_Witness ==
    /\ last.op = "get_interceptor_clientd"
    /\ last.index = 1 /\ last.clientd \in Clientds
    /\ interceptor_clientds[0] = NULL

\* the lifecycle states as the handle and the OS show them: Unbound has the
\* sentinel, Bound names an open socket, Closed names the socket close released
Unbound == fd = UNBOUND

Bound == OwnsOpenSocket

Closed == fd \in Fds /\ ~sockets[fd].open

(* C14: the lifecycle is Unbound -> Bound -> Closed with Closed terminal:  *)
(* a handle becomes Bound only by a successful init made on an Unbound     *)
(* handle, an init succeeds only on an Unbound handle, and no operation    *)
(* (a later init, a later close) takes a Closed handle out of Closed.      *)
C14_ClosedIsTerminal ==
    [][/\ Closed => Closed'
       /\ (~Bound /\ Bound') => (Unbound /\ Returns("init") /\ last'.ret = 0)
       /\ (Returns("init") /\ last'.ret = 0) => Unbound]_vars

\* the operations that are not init, close or interceptor-slot set
ReadOnlyOps ==
    {"recvmmsg", "sendmmsg", "sendmsg", "get_so_rcvbuf", "bind_addr_and_port",
     "get_interceptor_clientd"}

(* C15: receive batch, send batch, single send, the receive-buffer-size    *)
(* accessor, the bound-address accessor and interceptor-slot get leave the *)
(* descriptor, the timestamp capability flag and the interceptor slots as  *)
(* they were, whatever they return.                                        *)
C15_OperationsLeaveHandleUnchanged ==
    [][(\E op \in ReadOnlyOps : Returns(op)) =>
           /\ fd' = fd
           /\ timestamp_flags' = timestamp_flags
           /\ interceptor_clientds' = interceptor_clientds]_vars

\* a receive batch that failed hard on a bound handle with timestamping enabled
C15_Witness ==
    /\ last.op = "recvmmsg" /\ last.ret < 0
    /\ Bound
    /\ timestamp_flags = AERON_UDP_CHANNEL_TRANSPORT_MEDIA_RCV_TIMESTAMP

(* C16: a hard receive error ends the batch with a negative result and     *)
(* undoes nothing: on the scalar path, when the receive for slot j fails   *)
(* hard after the datagrams of slots 0..j-1 were delivered, the call       *)
(* returns a negative value, the callbacks made are exactly one for each   *)
(* of slots 0..j-1, in order, and the byte counter holds the bytes of      *)
(* those datagrams; on the vectorized path a hard error of the receive     *)
(* call returns a negative value with no callback.                         *)
C16_HardReceiveErrorAborts ==
    (RecvOnSocket /\ last.errno \notin {"EAGAIN", "EINTR"}) =>
        IF platform.HAVE_RECVMMSG
        THEN last.pending = <<>> =>
                /\ last.ret < 0
                /\ last.callbacks = <<>>
                /\ last.bytes_rcved = 0
        ELSE LET j == Len(last.pending)
             IN  (j < last.vlen /\ \A k \in 1 .. j : last.pending[k].len > 0) =>
                    /\ last.ret < 0
                    /\ DeliveredInOrder(j)
                    /\ last.bytes_rcved = SumPending(last.pending)

\* a scalar batch of three slots that delivered two datagrams before the third
\* receive failed hard
C16_Witness ==
    /\ RecvOnSocket /\ ~platform.HAVE_RECVMMSG
    /\ last.errno = "ECONNREFUSED"
    /\ last.vlen = 3 /\ Len(last.pending) = 2
    /\ last.ret < 0 /\ Len(last.callbacks) = 2 /\ last.bytes_rcved = 2

(* C17: a hard send error ends the call with a negative result, without    *)
(* retry and without rollback: in a scalar batch whose message j is the    *)
(* one the OS refuses with a hard error, the call returns a negative       *)
(* value, the messages up to and including j were each attempted once and  *)
(* none after j, and the messages before j keep the byte counts of their   *)
(* sends; a single send refused with a hard error returns a negative value *)
(* after one attempt.                                                      *)
C17_HardSendErrorAborts ==
    /\ (/\ last.op = "sendmmsg" /\ ValidFd(sockets, fd) /\ ~platform.HAVE_SENDMMSG
        /\ last.os.at # 0 /\ last.os.errno \notin {"EAGAIN", "EINTR"}
        /\ \A k \in 1 .. (last.os.at - 1) : last.lens[k] > 0) =>
            /\ last.ret < 0
            /\ last.attempts = last.os.at
            /\ last.msg_len = SubSeq(last.lens, 1, last.os.at - 1)
    /\ (/\ last.op = "sendmsg" /\ ValidFd(sockets, fd)
        /\ last.os.at # 0 /\ last.os.errno \notin {"EAGAIN", "EINTR"}) =>
            /\ last.ret < 0
            /\ last.attempts = 1

\* a scalar batch of three messages whose second send failed hard
C17_Witness ==
    /\ last.op = "sendmmsg" /\ ValidFd(sockets, fd) /\ ~platform.HAVE_SENDMMSG
    /\ last.vlen = 3 /\ last.os = [at |-> 2, errno |-> "ECONNREFUSED"]
    /\ last.ret < 0 /\ last.attempts = 2 /\ last.msg_len = <<1>>

(* C18: after an init the timestamp capability flag is `none` or the one   *)
(* media-receive value, and it has the media-receive value only when that  *)
(* init enabled both OS timestamp options, SO_TIMESTAMPNS then             *)
(* SO_TIMESTAMPING, successfully; after a successful init on a build with  *)
(* receive-timestamp support it has the media-receive value exactly when   *)
(* timestamping was requested; and when timestamping was not requested the *)
(* flag is `none` and no timestamp option is set on the socket.            *)
C18_TimestampFlagFollowsRequest ==
    last.op = "init" =>
        LET c == last.calls
            a == last.args
            on == timestamp_flags = AERON_UDP_CHANNEL_TRANSPORT_MEDIA_RCV_TIMESTAMP
        IN  /\ on \/ timestamp_flags = AERON_UDP_CHANNEL_TRANSPORT_MEDIA_RCV_TIMESTAMP_NONE
            /\ on => \E i, j \in 1 .. Len(c) :
                        /\ i < j
                        /\ c[i].call = "SO_TIMESTAMPNS" /\ c[i].ok
                        /\ c[j].call = "SO_TIMESTAMPING" /\ c[j].ok
            /\ (last.ret = 0 /\ platform.HAS_MEDIA_RCV_TIMESTAMPS) =>
                   (on <=> a.is_media_timestamping)
            /\ (last.ret = 0 /\ ~a.is_media_timestamping) =>
                   /\ ~on
                   /\ ~Has(c, "SO_TIMESTAMPNS") /\ ~Has(c, "SO_TIMESTAMPING")
                   /\ ~sockets[fd].so_timestampns /\ ~sockets[fd].so_timestamping

\* a successful init with timestamping requested on a build that supports it
C18_Witness ==
    /\ last.op = "init" /\ last.ret = 0
    /\ platform.HAS_MEDIA_RCV_TIMESTAMPS /\ last.args.is_media_timestamping
    /\ timestamp_flags = AERON_UDP_CHANNEL_TRANSPORT_MEDIA_RCV_TIMESTAMP
    /\ sockets[fd].so_timestampns /\ sockets[fd].so_timestamping

(* C19: over any sequence of init and close calls on the handle no socket  *)
(* is leaked: every open socket of the descriptor table (all were created  *)
(* by inits of this handle) is the one the handle's descriptor names, so   *)
(* at most one is open and none is open once the handle is unbound or      *)
(* closed.                                                                 *)
C19_NoSocketLeaked ==
    \A f \in OpenFds(sockets) : f = fd

(* C20: on a bound handle with timestamping enabled, for every slot i      *)
(* below both vlen and the number of receive buffers, the control-data     *)
(* length the vectorized receive registers for slot i is at most the bytes *)
(* reserved for slot i's ancillary buffer, the space of one control        *)
(* message that holds one timespec.                                        *)
C20_ControlLengthWithinBuffer ==
    (/\ RecvOnSocket /\ platform.HAVE_RECVMMSG
     /\ timestamp_flags # AERON_UDP_CHANNEL_TRANSPORT_MEDIA_RCV_TIMESTAMP_NONE) =>
        \A i \in 1 .. Min2(last.vlen, AERON_DRIVER_RECEIVER_NUM_RECV_BUFFERS) :
            /\ i <= Len(last.controllen)
            /\ last.controllen[i] <= CMSG_SPACE(sizeof_struct_timespec)

====
